---- MODULE Spec2Model ----
(***************************************************************************)
(* Cardiac monitor / defibrillator simulator (src/src/App.tsx).            *)
(*                                                                         *)
(* Five parts of the program are modelled here:                            *)
(*   - the therapy outcome model, handleShock, a function of the rhythm,   *)
(*     the energy, the sync flag and at most one Math.random() draw;       *)
(*   - the playback clock inside draw: the requestAnimationFrame callback  *)
(*     that advances scroll.current and maps canvas columns to buffer      *)
(*     indices;                                                            *)
(*   - the rhythm generators: the beat loops that fill rPeaks, in units    *)
(*     of 1/57 sample so that every cycle length is a whole number;        *)
(*   - a session of the mounted component: rhythm loads, the memoized      *)
(*     buffer, the sync switch and the markers drawn in a frame;           *)
(*   - the defibrillator controls: onCharge and its two timers, onShock,   *)
(*     power, pads, energy and mode, and shock after shock.                *)
(*                                                                         *)
(* Numbers.  Probabilities are exact rationals <<n, d>> with d > 0 and are *)
(* compared by cross-multiplication.  Time is in whole milliseconds and    *)
(* the scroll position is kept in units of 1/1000 sample, so that         *)
(* dt * SAMPLE_RATE = (ms / 1000) * 500 is exact.  Floating-point rounding *)
(* is not modelled.                                                        *)
(***************************************************************************)
EXTENDS Integers, Sequences, FiniteSets, TLC

VARIABLES
    \* ---- one call of handleShock(rhythm, energyJ, syncMode) ----
    shockPc,      \* "call" before the body runs, "returned" after
    shockArgs,    \* [rhythm, energyJ, syncMode]: the parameters
    shockDraw,    \* the value Math.random() gives this call, <<k, RandSteps>>
    shockP,       \* the local const p of the branch taken (NoP if none)
    shockRet,     \* the locals appropriate, converted, message, nextRhythm
    \* ---- the playback clock of the component ----
    now,          \* wall-clock time in ms since the time origin
    powerOn,      \* useState(true): the draw loop runs only while on
    speed,        \* useState<25 | 50>(25)
    canvasWidth,  \* useState(900), the canvas' width attribute
    lastTs,       \* useRef(0): timestamp of the previous frame
    scroll,       \* useRef(0): position, in units of 1/MS_PER_SECOND sample
    cols,         \* what the last frame drew: column px+1 |-> buffer index read
    firstTs,      \* history: timestamp of the first frame drawn (0: none yet)
    lastDtMs,     \* history: ts - lastTs.current of the last frame drawn, in ms
    steps,        \* history: number of times the environment let time pass
    \* ---- one call of a waveform generator ----
    genPc,        \* "loop" at the test of the beat loop, "done" after return
    genCall,      \* [fn, seconds, hr, prMsMin, prMsMax]: function and arguments
    genRhythm,    \* the catalog entry whose generator made the call, or NoRhythm
    genT,         \* tSec / t / k * cycleSamples, in ticks (NaN: not a number)
    genCount,     \* rPeaks.length
    genLast,      \* the last element pushed on rPeaks (0 while rPeaks is [])
    \* ---- the session state of the component ----
    scenario,     \* useState<RhythmId>(RHY.VF)
    syncModeOn,   \* the state syncMode: useState(false)
    mode,         \* useState<"practice" | "quiz">("practice")
    status,       \* useState<string>(...): which message, about which rhythm
    diagChoice,   \* useState<RhythmId | "">("")
    charged,      \* useState(false)
    charging,     \* useState(false)
    buffer,       \* the memoized gen(): [id, rhythm, call, draws]; id counts
                  \* the calls of gen() since the mount, call and draws fix
                  \* the content of the buffer and of rPeaks
    markers,      \* the sync markers the last frame drew: <<[rp, x], ...>>
    frame,        \* history: what the last frame was drawn from
    loads,        \* history: number of rhythm loads (selection, random case)
    \* ---- the defibrillator controls of the component ----
    padsOn,       \* useState(true)
    energy,       \* useState(200): the energy selected, in joules
    score,        \* useState({dxCorrect: 0, dxTotal: 0, txCorrect: 0, txTotal: 0})
    shockFlashTs, \* useState<number>(0): performance.now() of the last shock
    timers,       \* the pending setTimeout callbacks of onCharge
    charges,      \* history: number of charges onCharge has started
    completions,  \* history: number of charge timers that have fired
    shocks,       \* history: number of calls of handleShock by onShock
    armed,        \* history: the charge whose timer fired last, until a shock
    delivered,    \* history: the arguments of the last call of handleShock
    events        \* history: number of requests made with the device controls

shockVars == <<shockPc, shockArgs, shockDraw, shockP, shockRet>>
clockVars == <<now, powerOn, speed, canvasWidth, lastTs, scroll, cols,
              firstTs, lastDtMs, steps>>
genVars == <<genPc, genCall, genRhythm, genT, genCount, genLast>>
deviceVars == <<padsOn, energy, score, shockFlashTs, timers, charges, completions,
               shocks, armed, delivered, events>>
sessionVars == <<scenario, syncModeOn, mode, status, diagChoice, charged, charging,
                buffer, loads, deviceVars>>
frameVars == <<markers, frame>>
vars == <<shockVars, clockVars, genVars, sessionVars, frameVars>>

-----------------------------------------------------------------------------
(* Program constants *)

SAMPLE_RATE == 500
BUFFER_SECONDS == 180
\* const dt = (ts - lastTs.current) / 1000
MS_PER_SECOND == 1000

\* const RHY = {...}
RHY == [SINUS |-> "sinus", SVT |-> "svt", AFIB_RVR |-> "afib_rvr",
        VT_PULSE |-> "vt_pulse", PVT |-> "pvt", VF |-> "vf",
        ASYSTOLE |-> "asystole", PEA_NARROW |-> "pea_narrow"]

\* type RhythmId: the eight catalog rhythms
RhythmId == {RHY.SINUS, RHY.SVT, RHY.AFIB_RVR, RHY.VT_PULSE, RHY.PVT,
             RHY.VF, RHY.ASYSTOLE, RHY.PEA_NARROW}

\* where a rhythm is expected and there is none
NoRhythm == "none"

-----------------------------------------------------------------------------
(* Bounds of the model *)

\* Math.random() is drawn from the grid {0, 1/RandSteps, ..., (RandSteps-1)/RandSteps}
RandSteps == 20
\* energies passed to handleShock directly: -EnergyBelow .. EnergyAbove joules
EnergyBelow == 20
EnergyAbove == 400
\* how many times the environment lets time pass between frames
MaxSteps == 3
\* the largest heart rate a generator is called with
HugeHr == 100000
\* rhythm loads (selection, random case) in one session
MaxLoads == 1
\* requests made with the controls (rhythm loads, CHARGE, SHOCK, pads,
\* energy, mode) in one session
MaxEvents == 4
\* the heart rates a catalog generator draws when a session loads a rhythm:
\* its lowest rate and this many above it
HrDrawSpan == 3

Energies == (0 - EnergyBelow)..EnergyAbove

\* A rhythm identifier that is not a key of RHY (a caller outside the type check)
UNKNOWN_ID == "torsades"
AnyId == RhythmId \cup {UNKNOWN_ID}

-----------------------------------------------------------------------------
(* Numbers: Math.max, Math.min, <, on exact rationals <<n, d>>, d > 0 *)

Max(a, b) == IF a > b THEN a ELSE b
Min(a, b) == IF a < b THEN a ELSE b

RatLT(a, b) == a[1] * b[2] < b[1] * a[2]
RatEQ(a, b) == a[1] * b[2] = b[1] * a[2]
RatLE(a, b) == ~RatLT(b, a)
RatMax(a, b) == IF RatLT(a, b) THEN b ELSE a
RatMin(a, b) == IF RatLT(b, a) THEN b ELSE a

\* Math.random(): a value of [0, 1)
RandomValues == {<<k, RandSteps>> : k \in 0..(RandSteps - 1)}

\* shockP when the branch taken computes no p
NoP == <<-1, 1>>

-----------------------------------------------------------------------------
(* The waveform generators, src/src/App.tsx 64-263, and the catalog,        *)
(* 266-341.  What decides buffer.length and the content of rPeaks is        *)
(* modelled; the amplitudes that addGaussian writes are not.                *)
(*                                                                         *)
(* The loop variables tSec (generateRegularECG) and t (generateAfibRvr) are *)
(* kept in ticks of 1/TicksPerSample sample; 60/45 s and 60/190 s, the      *)
(* cycles at the two ends of the clamp of beatHr, are whole numbers of      *)
(* ticks.  A cycle is rounded down to a tick.  Of the values a call of      *)
(* randRange can give, the model takes the two ends of its range.           *)

TicksPerSample == 3 * 19
TicksPerSecond == SAMPLE_RATE * TicksPerSample

\* the IEEE values NaN and Infinity of a JavaScript number: no tick count is
\* negative, so a negative number stands for each
NaN == 0 - 1
Infinity == 0 - 2

\* const clamp = (v, lo, hi) => Math.max(lo, Math.min(hi, v));
clamp(v, lo, hi) == Max(lo, Min(hi, v))

\* const samples = Math.floor(seconds * SAMPLE_RATE); new Float32Array(samples)
samplesOf_Seconds(seconds) == seconds
samplesOf(seconds) == seconds * SAMPLE_RATE

\* Math.floor(randRange(a, b)) for whole a < b: the two ends, and every value
FloorRandEnds(a, b) == {a, b - 1}
FloorRandAll(a, b) == a..(b - 1)

\* function generateRegularECG(seconds, hr, qrsWidthMs, opts): the call
generateRegularECG(seconds, hr, prMsMin, prMsMax) ==
    [fn |-> "generateRegularECG", seconds |-> seconds, hr |-> hr,
     prMsMin |-> prMsMin, prMsMax |-> prMsMax]

\* function generateAfibRvr(seconds, meanHr): the call
generateAfibRvr(seconds, meanHr) ==
    [fn |-> "generateAfibRvr", seconds |-> seconds, hr |-> meanHr,
     prMsMin |-> 0, prMsMax |-> 0]

\* function generateVF(seconds): the call
generateVF(seconds) ==
    [fn |-> "generateVF", seconds |-> seconds, hr |-> 0,
     prMsMin |-> 0, prMsMax |-> 0]

\* function generateVT(seconds, hr): the call
generateVT(seconds, hr) ==
    [fn |-> "generateVT", seconds |-> seconds, hr |-> hr,
     prMsMin |-> 0, prMsMax |-> 0]

\* function generateAsystole(seconds): the call
generateAsystole(seconds) ==
    [fn |-> "generateAsystole", seconds |-> seconds, hr |-> 0,
     prMsMin |-> 0, prMsMax |-> 0]

\* return generateRegularECG(seconds, hr, 85, {amp: 0.85, prMsMin: 140, prMsMax: 220})
generatePEA_narrow(seconds, hr) == generateRegularECG(seconds, hr, 140, 220)

\* generateRegularECG(seconds, hr, 80, {pWave: false, amp: 0.95, prMsMin: 60,
\* prMsMax: 120}); the retrograde P waves added afterwards leave rPeaks alone
generateSVT(seconds, hr) == generateRegularECG(seconds, hr, 60, 120)

\* const SCENARIOS: generator is the set of calls the arrow function can
\* make, one per value of the heart rate it draws
SCENARIOS ==
    [r \in RhythmId |->
       CASE r = RHY.SINUS ->
              [generator |-> {generateRegularECG(BUFFER_SECONDS, 70 + d, 120, 200) :
                                d \in FloorRandEnds(0 - 8, 8)},
               shockable |-> FALSE, syncRecommended |-> FALSE, syncable |-> TRUE]
         [] r = RHY.SVT ->
              [generator |-> {generateSVT(BUFFER_SECONDS, h) :
                                h \in FloorRandEnds(160, 210)},
               shockable |-> FALSE, syncRecommended |-> TRUE, syncable |-> TRUE]
         [] r = RHY.AFIB_RVR ->
              [generator |-> {generateAfibRvr(BUFFER_SECONDS, 140 + d) :
                                d \in FloorRandEnds(0 - 20, 20)},
               shockable |-> FALSE, syncRecommended |-> TRUE, syncable |-> TRUE]
         [] r = RHY.VT_PULSE ->
              [generator |-> {generateVT(BUFFER_SECONDS, h) :
                                h \in FloorRandAll(150, 185)},
               shockable |-> FALSE, syncRecommended |-> TRUE, syncable |-> TRUE]
         [] r = RHY.PVT ->
              [generator |-> {generateVT(BUFFER_SECONDS, 170)},
               shockable |-> TRUE, syncRecommended |-> FALSE, syncable |-> TRUE]
         [] r = RHY.VF ->
              [generator |-> {generateVF(BUFFER_SECONDS)},
               shockable |-> TRUE, syncRecommended |-> FALSE, syncable |-> FALSE]
         [] r = RHY.ASYSTOLE ->
              [generator |-> {generateAsystole(BUFFER_SECONDS)},
               shockable |-> FALSE, syncRecommended |-> FALSE, syncable |-> FALSE]
         [] r = RHY.PEA_NARROW ->
              [generator |-> {generatePEA_narrow(BUFFER_SECONDS, 50)},
               shockable |-> FALSE, syncRecommended |-> FALSE, syncable |-> TRUE]]

\* while (tSec * SAMPLE_RATE < samples), while (t * SAMPLE_RATE < samples):
\* a comparison with NaN is false
loopContinues_AfterFirst(t, samples) ==
    t # NaN /\ 0 < t /\ t < samples * TicksPerSample
loopContinues(t, samples) == t # NaN /\ t < samples * TicksPerSample

\* tSec += cycleSec, t += rr: a sum with NaN is NaN
addTime(t, d) == IF t = NaN \/ d = NaN THEN NaN ELSE t + d

\* randRange(-frac, frac) inside jitter(baseHr, 0.03), in thousandths; only
\* generateRegularECG draws it
JitterDraws(call) ==
    IF call.fn = "generateRegularECG" THEN {0 - 30, 29} ELSE {0}

\* const beatHr = clamp(jitter(baseHr, 0.03), 45, 190), a rational
beatHr(baseHr, j) ==
    RatMax(<<45, 1>>, RatMin(<<190, 1>>, <<baseHr * (1000 + j), 1000>>))

\* const cycleSec = 60 / beatHr, in ticks
cycleSec(bh) == (60 * TicksPerSecond * bh[2]) \div bh[1]

\* randRange(prMin, prMax) in whole ms; only generateRegularECG draws it
PrDraws(call) ==
    IF call.fn = "generateRegularECG"
    THEN {call.prMsMin, call.prMsMax - 1}
    ELSE {0}

\* const prMs = clamp(randRange(prMin, prMax), 80, 260);
\* const prS = Math.floor((prMs / 1000) * SAMPLE_RATE);
prS(prMsDraw) == (clamp(prMsDraw, 80, 260) * SAMPLE_RATE) \div MS_PER_SECOND

\* const base = Math.floor(tSec * SAMPLE_RATE);  const qrsCenter = base + prS;
qrsCenter(t, prMsDraw) == t \div TicksPerSample + prS(prMsDraw)

\* const meanRR = 60 / meanHr, in ticks; 60 / 0 is Infinity
meanRR(meanHr) ==
    IF meanHr = 0 THEN Infinity ELSE (60 * TicksPerSecond) \div meanHr

\* 0.22 s, the half-width of the range of rr, in ticks
RRSpread == (22 * TicksPerSecond) \div 100

\* randRange(meanRR - 0.22, meanRR + 0.22) - meanRR, in ticks; only
\* generateAfibRvr draws it
RRDraws(call) ==
    IF call.fn = "generateAfibRvr" THEN {0 - RRSpread, RRSpread - 1} ELSE {0}

\* const rr = clamp(randRange(meanRR - 0.22, meanRR + 0.22), 0.28, 1.1);
\* with meanRR = Infinity the range has the width Infinity - Infinity = NaN,
\* randRange gives NaN, and Math.min and Math.max give NaN for a NaN argument
rr(meanHr, d) ==
    IF meanRR(meanHr) = Infinity
    THEN NaN
    ELSE clamp(meanRR(meanHr) + d, (28 * TicksPerSecond) \div 100,
               (110 * TicksPerSecond) \div 100)

\* const rIndex = Math.floor(t * SAMPLE_RATE);
rIndex(t) == t \div TicksPerSample

\* const cycleSec = 60 / hr;
\* const cycleSamples = Math.max(20, Math.floor(cycleSec * SAMPLE_RATE));
cycleSamples(hr) ==
    IF hr = 0 THEN Infinity ELSE Max(20, (60 * SAMPLE_RATE) \div hr)

\* for (let k = 0; k * cycleSamples < samples; k++): 0 * Infinity is NaN and
\* k * Infinity is Infinity, neither is below samples
vtContinues(k, cs, samples) == cs # Infinity /\ k * cs < samples

\* const center = base + 0.32 * cycleSamples;  rPeaks.push(Math.round(center));
vtPeak_Wrapped(k, cs) == (k * cs + (32 * cs + 50) \div 100) % (BUFFER_SECONDS * SAMPLE_RATE)
vtPeak(k, cs) == k * cs + (32 * cs + 50) \div 100

\* the test of the beat loop of the function called, with loop variable t and
\* k beats placed; generateVF and generateAsystole have no beat loop
continues(call, t, k) ==
    CASE call.fn = "generateRegularECG" -> loopContinues(t, samplesOf(call.seconds))
      [] call.fn = "generateAfibRvr" -> loopContinues(t, samplesOf(call.seconds))
      [] call.fn = "generateVT" ->
           vtContinues(k, cycleSamples(call.hr), samplesOf(call.seconds))
      [] OTHER -> FALSE

\* one iteration of the beat loop: the mark pushed and the loop variable after
beat(call, t, k, j, pr, d) ==
    CASE call.fn = "generateRegularECG" ->
           [peak |-> qrsCenter(t, pr),
            t |-> addTime(t, cycleSec(beatHr(call.hr, j)))]
      [] call.fn = "generateAfibRvr" ->
           [peak |-> rIndex(t), t |-> addTime(t, rr(call.hr, d))]
      [] call.fn = "generateVT" ->
           [peak |-> vtPeak(k, cycleSamples(call.hr)),
            t |-> (k + 1) * cycleSamples(call.hr) * TicksPerSample]

-----------------------------------------------------------------------------
(* gen(): the {buffer, rPeaks} of a whole call, src/src/App.tsx 460-461     *)

\* the least element of a set of draws
Low(S) == CHOOSE x \in S : \A y \in S : x <= y

\* rPeaks after the beat loop of a call whose draws j, pr, d come out the same
\* on every beat: every iteration adds the same c to the loop variable, so
\* iteration i starts at (i - 1) * c and the loop runs while that is below
\* samples (once, if c is NaN)
rPeaksOf(call, j, pr, d) ==
    LET c == beat(call, 0, 0, j, pr, d).t
        end == samplesOf(call.seconds) * TicksPerSample
        n == IF ~continues(call, 0, 0) THEN 0
             ELSE IF c = NaN THEN 1
             ELSE (end + c - 1) \div c
    IN [i \in 1..n |-> beat(call, (i - 1) * c, i - 1, j, pr, d).peak]

\* the calls SCENARIOS[rhythm].generator makes in a session: the heart rate
\* drawn is the lowest one or the one HrDrawSpan above it
SessionCalls(rhythm) ==
    LET calls == SCENARIOS[rhythm].generator
        least == Low({c.hr : c \in calls})
    IN {c \in calls : c.hr \in {least, least + HrDrawSpan}}

\* const { buffer, rPeaks } = useMemo(() => gen(), [gen]): the values gen()
\* can return for a rhythm, as the id-th buffer generated since the mount;
\* every random draw of the beat loop is at the low end of its range
generated(rhythm, id) ==
    {[id |-> id, rhythm |-> rhythm, call |-> c,
      draws |-> <<Low(JitterDraws(c)), Low(PrDraws(c)), Low(RRDraws(c))>>] :
        c \in SessionCalls(rhythm)}

\* the rPeaks that useMemo holds together with the buffer
rPeaks(buf) == rPeaksOf(buf.call, buf.draws[1], buf.draws[2], buf.draws[3])

\* useMemo(..., [scenario]) at the render after setScenario(next): gen is
\* looked up and called again only if the value of scenario has changed;
\* otherwise the memoized buffer is kept
rendered(buf, next) ==
    IF next = buf.rhythm THEN {buf} ELSE generated(next, buf.id + 1)

\* setStatus(...): the message set, and the rhythm it names
Status(kind, rhythm) == [kind |-> kind, rhythm |-> rhythm]

\* function formatEnergy(e): `${Math.round(e)} J`; e is a whole number of
\* joules here, which Math.round leaves as it is
formatEnergy(e) == <<e, " J">>

\* setStatus(`Charging to ${formatEnergy(energy)}...`) and
\* setStatus(`Charged: ${formatEnergy(energy)}. Ready to shock.`)
StatusEnergy(kind, e) == [kind |-> kind, energy |-> formatEnergy(e)]

\* history: no charge timer has fired since the mount or the last shock
NoCharge == [id |-> 0, energy |-> 0, loads |-> 0]

\* history: handleShock has not been called by onShock
NoDelivery == [rhythm |-> NoRhythm, energyJ |-> 0, syncMode |-> FALSE]

\* history: no frame drawn yet
NoFrame ==
    [ts |-> 0, pos |-> 0, startIdx |-> 0, visSamples |-> 0, w |-> 0,
     syncMode |-> FALSE, scenario |-> NoRhythm, buffer |-> 0]

\* the session state after mounting: lines 443-461
MountInit ==
    /\ scenario = RHY.VF
    /\ syncModeOn = FALSE
    /\ mode = "practice"
    /\ status = Status("Press CHARGE", NoRhythm)
    /\ diagChoice = ""
    /\ charged = FALSE
    /\ charging = FALSE
    /\ buffer \in generated(RHY.VF, 0)
    /\ markers = <<>>
    /\ frame = NoFrame
    /\ loads = 0
    /\ padsOn = TRUE
    /\ energy = 200
    /\ score = [dxCorrect |-> 0, dxTotal |-> 0, txCorrect |-> 0, txTotal |-> 0]
    /\ shockFlashTs = 0
    /\ timers = {}
    /\ charges = 0
    /\ completions = 0
    /\ shocks = 0
    /\ armed = NoCharge
    /\ delivered = NoDelivery
    /\ events = 0

-----------------------------------------------------------------------------
(* handleShock, src/src/App.tsx 344-435 *)

\* const e = Math.max(0, Math.min(360, energyJ));
clampEnergy_NoUpper(energyJ) == Max(0, energyJ)
clampEnergy(energyJ) == Max(0, Min(360, energyJ))

\* rhythm === RHY.VF || rhythm === RHY.PVT
isDefibRhythm_WithAsystole(rhythm) == rhythm \in {RHY.VF, RHY.PVT, RHY.ASYSTOLE}
isDefibRhythm(rhythm) == rhythm = RHY.VF \/ rhythm = RHY.PVT

\* appropriate = !syncMode || true;
defibAppropriate_UnsyncOnly(syncMode) == ~syncMode
defibAppropriate(syncMode) == ~syncMode \/ TRUE

\* const p = Math.max(0.15, Math.min(0.88, (e - 80) / 160));
pDefib_NoFloor(e) == RatMax(<<0, 100>>, RatMin(<<88, 100>>, <<e - 80, 160>>))
pDefib(e) == RatMax(<<15, 100>>, RatMin(<<88, 100>>, <<e - 80, 160>>))
\* const p = Math.max(0.4, Math.min(0.95, (e - 40) / 120));
pSVT(e) == RatMax(<<40, 100>>, RatMin(<<95, 100>>, <<e - 40, 120>>))
\* const p = Math.max(0.35, Math.min(0.85, (e - 90) / 160));
pAfib(e) == RatMax(<<35, 100>>, RatMin(<<85, 100>>, <<e - 90, 160>>))
\* const p = Math.max(0.35, Math.min(0.9, (e - 80) / 160));
pVT_NoCap(e) == RatMax(<<35, 100>>, <<e - 80, 160>>)
pVT(e) == RatMax(<<35, 100>>, RatMin(<<90, 100>>, <<e - 80, 160>>))

\* Math.random() < 0.08, < 0.06, < 0.12: the unsynchronized shock degenerates
degradeSVT == <<8, 100>>
degradeAfib == <<6, 100>>
degradeVT == <<12, 100>>

\* The locals of lines 354-357, before any branch runs
shockLocals(rhythm) ==
    [appropriate |-> FALSE, converted |-> FALSE, message |-> <<"">>,
     nextRhythm |-> rhythm]

\* lines 361-369: defibrillation of VF / PVT
shockDefib(rhythm, e, syncMode, rnd) ==
    LET converted == RatLT(rnd, pDefib(e))
    IN [appropriate |-> defibAppropriate(syncMode),
        converted |-> converted,
        nextRhythm |-> IF converted THEN RHY.SINUS ELSE rhythm,
        message |-> IF converted
            THEN <<"Defibrillation at ${e}J converted the rhythm -> Normal Sinus.", e>>
            ELSE <<"Shock at ${e}J unsuccessful. Continue high-quality CPR and escalate energy.", e>>]

\* lines 370-389: SVT
shockSVT_SyncIgnored(e, syncMode, rnd) ==
    LET converted == RatLT(rnd, pSVT(e))
    IN [appropriate |-> TRUE, converted |-> converted,
        nextRhythm |-> IF converted THEN RHY.SINUS ELSE RHY.SVT,
        message |-> IF converted
            THEN <<"Synchronized cardioversion at ${e}J successful -> Normal Sinus.", e>>
            ELSE <<"Cardioversion at ${e}J failed. Consider higher energy or alternative maneuvers.", e>>]
shockSVT(e, syncMode, rnd) ==
    IF syncMode
    THEN LET converted == RatLT(rnd, pSVT(e))
         IN [appropriate |-> TRUE, converted |-> converted,
             nextRhythm |-> IF converted THEN RHY.SINUS ELSE RHY.SVT,
             message |-> IF converted
                 THEN <<"Synchronized cardioversion at ${e}J successful -> Normal Sinus.", e>>
                 ELSE <<"Cardioversion at ${e}J failed. Consider higher energy or alternative maneuvers.", e>>]
    ELSE IF RatLT(rnd, degradeSVT)
         THEN [appropriate |-> FALSE, converted |-> FALSE, nextRhythm |-> RHY.VF,
               message |-> <<"Unsynchronized shock delivered in SVT -> degenerated to VF. Begin defibrillation.">>]
         ELSE [appropriate |-> FALSE, converted |-> FALSE, nextRhythm |-> RHY.SVT,
               message |-> <<"Unsynchronized shock in SVT is inappropriate. No conversion.">>]

\* lines 390-408: AF with RVR
shockAfib_FailsToSVT(e, syncMode, rnd) ==
    IF syncMode
    THEN LET converted == RatLT(rnd, pAfib(e))
         IN [appropriate |-> TRUE, converted |-> converted,
             nextRhythm |-> IF converted THEN RHY.SINUS ELSE RHY.SVT,
             message |-> IF converted
                 THEN <<"Synchronized cardioversion at ${e}J -> Normal Sinus.", e>>
                 ELSE <<"Cardioversion at ${e}J failed. Consider higher energy or repeat.", e>>]
    ELSE IF RatLT(rnd, degradeAfib)
         THEN [appropriate |-> FALSE, converted |-> FALSE, nextRhythm |-> RHY.VF,
               message |-> <<"Unsynchronized shock in AF with RVR -> degenerated to VF.">>]
         ELSE [appropriate |-> FALSE, converted |-> FALSE, nextRhythm |-> RHY.AFIB_RVR,
               message |-> <<"Unsynchronized shock in AF is inappropriate.">>]
shockAfib(e, syncMode, rnd) ==
    IF syncMode
    THEN LET converted == RatLT(rnd, pAfib(e))
         IN [appropriate |-> TRUE, converted |-> converted,
             nextRhythm |-> IF converted THEN RHY.SINUS ELSE RHY.AFIB_RVR,
             message |-> IF converted
                 THEN <<"Synchronized cardioversion at ${e}J -> Normal Sinus.", e>>
                 ELSE <<"Cardioversion at ${e}J failed. Consider higher energy or repeat.", e>>]
    ELSE IF RatLT(rnd, degradeAfib)
         THEN [appropriate |-> FALSE, converted |-> FALSE, nextRhythm |-> RHY.VF,
               message |-> <<"Unsynchronized shock in AF with RVR -> degenerated to VF.">>]
         ELSE [appropriate |-> FALSE, converted |-> FALSE, nextRhythm |-> RHY.AFIB_RVR,
               message |-> <<"Unsynchronized shock in AF is inappropriate.">>]

\* lines 409-427: VT with a pulse
shockVT_DegradesWhenSynced(e, syncMode, rnd) ==
    IF syncMode
    THEN LET converted == RatLT(rnd, pVT(e))
         IN [appropriate |-> TRUE, converted |-> converted,
             nextRhythm |-> IF converted THEN RHY.SINUS
                            ELSE IF RatLT(rnd, <<95, 100>>) THEN RHY.VT_PULSE ELSE RHY.VF,
             message |-> IF converted
                 THEN <<"Synchronized cardioversion at ${e}J -> Normal Sinus.", e>>
                 ELSE <<"Cardioversion at ${e}J failed. Increase energy or reattempt.", e>>]
    ELSE IF RatLT(rnd, degradeVT)
         THEN [appropriate |-> FALSE, converted |-> FALSE, nextRhythm |-> RHY.VF,
               message |-> <<"Unsynchronized shock in VT with a pulse -> degenerated to VF.">>]
         ELSE [appropriate |-> FALSE, converted |-> FALSE, nextRhythm |-> RHY.VT_PULSE,
               message |-> <<"Unsynchronized shock in VT with pulse is inappropriate.">>]
shockVT(e, syncMode, rnd) ==
    IF syncMode
    THEN LET converted == RatLT(rnd, pVT(e))
         IN [appropriate |-> TRUE, converted |-> converted,
             nextRhythm |-> IF converted THEN RHY.SINUS ELSE RHY.VT_PULSE,
             message |-> IF converted
                 THEN <<"Synchronized cardioversion at ${e}J -> Normal Sinus.", e>>
                 ELSE <<"Cardioversion at ${e}J failed. Increase energy or reattempt.", e>>]
    ELSE IF RatLT(rnd, degradeVT)
         THEN [appropriate |-> FALSE, converted |-> FALSE, nextRhythm |-> RHY.VF,
               message |-> <<"Unsynchronized shock in VT with a pulse -> degenerated to VF.">>]
         ELSE [appropriate |-> FALSE, converted |-> FALSE, nextRhythm |-> RHY.VT_PULSE,
               message |-> <<"Unsynchronized shock in VT with pulse is inappropriate.">>]

\* lines 428-432: asystole, PEA, sinus
shockNotShockable_Appropriate(rhythm) ==
    [appropriate |-> TRUE, converted |-> FALSE, nextRhythm |-> rhythm,
     message |-> <<"Not a shockable rhythm. Focus on high-quality CPR/epinephrine & reversible causes.">>]
shockNotShockable(rhythm) ==
    [appropriate |-> FALSE, converted |-> FALSE, nextRhythm |-> rhythm,
     message |-> <<"Not a shockable rhythm. Focus on high-quality CPR/epinephrine & reversible causes.">>]

\* The whole function: the if / else-if chain of lines 361-432 and the return of
\* line 434.  A rhythm no branch names falls through with the initial locals.
handleShock(rhythm, energyJ, syncMode, rnd) ==
    LET e == clampEnergy(energyJ)
    IN IF isDefibRhythm(rhythm) THEN shockDefib(rhythm, e, syncMode, rnd)
       ELSE IF rhythm = RHY.SVT THEN shockSVT(e, syncMode, rnd)
       ELSE IF rhythm = RHY.AFIB_RVR THEN shockAfib(e, syncMode, rnd)
       ELSE IF rhythm = RHY.VT_PULSE THEN shockVT(e, syncMode, rnd)
       ELSE IF rhythm = RHY.ASYSTOLE \/ rhythm = RHY.PEA_NARROW \/ rhythm = RHY.SINUS
            THEN shockNotShockable(rhythm)
       ELSE shockLocals(rhythm)

\* The local const p that the call compares Math.random() with (NoP: no such p)
conversionP(rhythm, energyJ, syncMode) ==
    LET e == clampEnergy(energyJ)
    IN IF isDefibRhythm(rhythm) THEN pDefib(e)
       ELSE IF rhythm = RHY.SVT /\ syncMode THEN pSVT(e)
       ELSE IF rhythm = RHY.AFIB_RVR /\ syncMode THEN pAfib(e)
       ELSE IF rhythm = RHY.VT_PULSE /\ syncMode THEN pVT(e)
       ELSE NoP

\* Whether the call ends by throwing.  The function has no throw statement and
\* reads no property of a value that can be undefined: it always returns.
handleShockThrows(rhythm) == FALSE

\* Whether the branch taken calls Math.random() (lines 365, 374, 382, 394, 401, 413, 420)
drawsRandom(rhythm) ==
    rhythm \in {RHY.VF, RHY.PVT, RHY.SVT, RHY.AFIB_RVR, RHY.VT_PULSE}

\* shockDraw when the call draws nothing
NoDraw == <<-1, 1>>

-----------------------------------------------------------------------------
(* The playback clock at rest: the state of the component after mounting    *)

ClockInit ==
    /\ now = 0
    /\ powerOn = TRUE
    /\ speed = 25
    /\ canvasWidth = 900
    /\ lastTs = 0
    /\ scroll = 0
    /\ cols = <<>>
    /\ firstTs = 0
    /\ lastDtMs = 0
    /\ steps = 0

-----------------------------------------------------------------------------
(* No generator call in progress                                            *)

\* genCall when no generator has been called
NoCall == [fn |-> "none", seconds |-> 0, hr |-> 0, prMsMin |-> 0, prMsMax |-> 0]

GenIdle ==
    /\ genPc = "idle"
    /\ genCall = NoCall
    /\ genRhythm = NoRhythm
    /\ genT = 0
    /\ genCount = 0
    /\ genLast = 0

-----------------------------------------------------------------------------
(* Specification SpecShock: handleShock called once on every input          *)

ShockInit ==
    /\ shockPc = "call"
    /\ shockArgs \in [rhythm : AnyId, energyJ : Energies, syncMode : BOOLEAN]
    /\ shockDraw = NoDraw
    /\ shockP = NoP
    /\ shockRet = shockLocals(shockArgs.rhythm)

\* One call: the body of handleShock runs to its return statement
Deliver ==
    /\ shockPc = "call"
    /\ \E rnd \in RandomValues :
         /\ shockDraw' = IF drawsRandom(shockArgs.rhythm) THEN rnd ELSE NoDraw
         /\ shockRet' = handleShock(shockArgs.rhythm, shockArgs.energyJ,
                                    shockArgs.syncMode, rnd)
    /\ shockP' = conversionP(shockArgs.rhythm, shockArgs.energyJ, shockArgs.syncMode)
    /\ shockPc' = IF handleShockThrows(shockArgs.rhythm) THEN "threw" ELSE "returned"
    /\ UNCHANGED <<shockArgs, clockVars, genVars, sessionVars, frameVars>>

ShockNext == Deliver

ShockSpecInit == ShockInit /\ ClockInit /\ GenIdle /\ MountInit

SpecShock == ShockSpecInit /\ [][ShockNext]_vars

-----------------------------------------------------------------------------
(* Properties of handleShock, checked under SpecShock                       *)

Returned == shockPc = "returned"
Organized == {RHY.SVT, RHY.AFIB_RVR, RHY.VT_PULSE}
\* The therapy the table calls appropriate: any shock of VF / PVT, a
\* synchronized one of SVT, AFIB_RVR, VT_PULSE
AppropriateTherapy ==
    \/ shockArgs.rhythm \in {RHY.VF, RHY.PVT}
    \/ shockArgs.rhythm \in Organized /\ shockArgs.syncMode

\* C1: for SINUS, ASYSTOLE and PEA_NARROW, at every energy and with either sync
\* flag, the call returns appropriate = false, converted = false and
\* nextRhythm = the input rhythm.
C1_NonShockableUnchanged ==
    (Returned /\ shockArgs.rhythm \in {RHY.SINUS, RHY.ASYSTOLE, RHY.PEA_NARROW})
    => /\ shockRet.appropriate = FALSE
       /\ shockRet.converted = FALSE
       /\ shockRet.nextRhythm = shockArgs.rhythm

C1_Witness ==
    /\ Returned
    /\ shockArgs = [rhythm |-> RHY.ASYSTOLE, energyJ |-> 360, syncMode |-> TRUE]
    /\ shockRet.nextRhythm = RHY.ASYSTOLE
    /\ ~shockRet.appropriate

\* C2: for VF and PVT the call returns appropriate = true at every energy and
\* with either value of the sync flag.
C2_DefibAlwaysAppropriate ==
    (Returned /\ shockArgs.rhythm \in {RHY.VF, RHY.PVT})
    => shockRet.appropriate = TRUE

C2_Witness ==
    /\ Returned
    /\ shockArgs.rhythm = RHY.PVT
    /\ shockArgs.syncMode
    /\ shockRet.appropriate

\* C3: for SVT, AFIB_RVR and VT_PULSE the appropriate field equals the sync
\* flag, at every energy and whether or not the shock converted.
C3_AppropriateIsSyncFlag ==
    (Returned /\ shockArgs.rhythm \in Organized)
    => shockRet.appropriate = shockArgs.syncMode

C3_Witness ==
    /\ Returned
    /\ shockArgs.rhythm = RHY.SVT
    /\ shockArgs.syncMode
    /\ ~shockRet.converted
    /\ shockRet.appropriate

\* C4: after appropriate therapy nextRhythm is SINUS exactly when converted
\* is true, and when converted is false nextRhythm is the input rhythm.
C4_ConvertedIffSinus ==
    (Returned /\ AppropriateTherapy)
    => /\ (shockRet.nextRhythm = RHY.SINUS) <=> shockRet.converted
       /\ ~shockRet.converted => shockRet.nextRhythm = shockArgs.rhythm

C4_Witness ==
    /\ Returned
    /\ shockArgs.rhythm = RHY.AFIB_RVR
    /\ shockArgs.syncMode
    /\ ~shockRet.converted
    /\ shockRet.nextRhythm = RHY.AFIB_RVR

\* C5: a rhythm other than VF becomes VF only if it is SVT, AFIB_RVR or
\* VT_PULSE shocked unsynchronized; such a shock never converts and leaves
\* VF or the input rhythm, never SINUS; a result with appropriate = true
\* never turns a rhythm other than VF into VF.
C5_DegradeOnlyWhenInappropriate ==
    Returned =>
       /\ (shockRet.nextRhythm = RHY.VF /\ shockArgs.rhythm # RHY.VF)
            => (shockArgs.rhythm \in Organized /\ ~shockArgs.syncMode)
       /\ (shockArgs.rhythm \in Organized /\ ~shockArgs.syncMode)
            => /\ ~shockRet.converted
               /\ shockRet.nextRhythm \in {RHY.VF, shockArgs.rhythm}
               /\ shockRet.nextRhythm # RHY.SINUS
       /\ (shockRet.appropriate /\ shockArgs.rhythm # RHY.VF)
            => shockRet.nextRhythm # RHY.VF

C5_Witness ==
    /\ Returned
    /\ shockArgs = [rhythm |-> RHY.SVT, energyJ |-> 200, syncMode |-> FALSE]
    /\ shockRet.nextRhythm = RHY.VF
    /\ ~shockRet.appropriate

\* C6: an energy above 360 gives, for the same draw, the result (message
\* included) and the conversion probability of energy 360, and an energy
\* below 0 those of energy 0.
C6_EnergyClamped ==
    Returned =>
       /\ shockArgs.energyJ > 360 =>
            /\ shockRet = handleShock(shockArgs.rhythm, 360, shockArgs.syncMode, shockDraw)
            /\ RatEQ(shockP, conversionP(shockArgs.rhythm, 360, shockArgs.syncMode))
       /\ shockArgs.energyJ < 0 =>
            /\ shockRet = handleShock(shockArgs.rhythm, 0, shockArgs.syncMode, shockDraw)
            /\ RatEQ(shockP, conversionP(shockArgs.rhythm, 0, shockArgs.syncMode))

C6_Witness ==
    /\ Returned
    /\ shockArgs = [rhythm |-> RHY.VF, energyJ |-> EnergyAbove, syncMode |-> FALSE]
    /\ shockRet.converted
    /\ shockRet.message[2] = 360

\* The table's ramp clamp((E - off) / span, lo/100, hi/100), case by case
TableRamp(E, off, span, lo, hi) ==
    IF 100 * (E - off) <= lo * span THEN <<lo, 100>>
    ELSE IF 100 * (E - off) >= hi * span THEN <<hi, 100>>
    ELSE <<E - off, span>>

TableP(rhythm, E) ==
    CASE rhythm \in {RHY.VF, RHY.PVT} -> TableRamp(E, 80, 160, 15, 88)
      [] rhythm = RHY.SVT -> TableRamp(E, 40, 120, 40, 95)
      [] rhythm = RHY.AFIB_RVR -> TableRamp(E, 90, 160, 35, 85)
      [] rhythm = RHY.VT_PULSE -> TableRamp(E, 80, 160, 35, 90)

C22_CatalogAgreesWithOutcome ==
    (Returned /\ shockArgs.rhythm \in RhythmId) =>
       LET r == shockArgs.rhythm
           meta == SCENARIOS[r]
           other(rnd) == handleShock(r, shockArgs.energyJ, ~shockArgs.syncMode, rnd)
           unsyncOk(rnd) == IF shockArgs.syncMode THEN other(rnd).appropriate
                            ELSE shockRet.appropriate
           syncOk(rnd) == IF shockArgs.syncMode THEN shockRet.appropriate
                          ELSE other(rnd).appropriate
       IN /\ \A rnd \in RandomValues :
               /\ meta.shockable <=> unsyncOk(rnd)
               /\ meta.syncRecommended <=> (syncOk(rnd) /\ ~unsyncOk(rnd))
          /\ meta.shockable <=> r \in {RHY.VF, RHY.PVT}
          /\ meta.syncRecommended <=> r \in Organized
          /\ (~meta.shockable /\ ~meta.syncRecommended) => ~shockRet.appropriate

\* a synchronized shock of PVT: appropriate for a rhythm that is shockable
\* and for which cardioversion is not recommended
C22_Witness ==
    /\ Returned
    /\ shockArgs.rhythm = RHY.PVT
    /\ shockArgs.syncMode
    /\ shockRet.appropriate
    /\ SCENARIOS[RHY.PVT].shockable
    /\ ~SCENARIOS[RHY.PVT].syncRecommended

\* C27: for every rhythm, energy and sync flag a result with converted = true
\* has appropriate = true, and a result with appropriate = false has
\* converted = false.
C27_ConvertedOnlyIfAppropriate ==
    Returned =>
       /\ shockRet.converted => shockRet.appropriate
       /\ ~shockRet.appropriate => ~shockRet.converted

\* a synchronized shock of VF that converted
C27_Witness ==
    /\ Returned
    /\ shockArgs.rhythm = RHY.VF
    /\ shockArgs.syncMode
    /\ shockRet.converted
    /\ shockRet.nextRhythm = RHY.SINUS

\* C8: a call with a rhythm identifier outside the catalog ends by signalling
\* an invalid argument; it does not return a result.
C8_UnknownRhythmFailsFast ==
    (shockPc # "call" /\ shockArgs.rhythm \notin RhythmId) => shockPc = "threw"

-----------------------------------------------------------------------------
(* The playback clock: draw, src/src/App.tsx 521-587                        *)

\* const samples = Math.floor(seconds * SAMPLE_RATE); new Float32Array(samples):
\* every generator is called with BUFFER_SECONDS, so buffer.length is the same
\* for the eight rhythms
bufferLength == BUFFER_SECONDS * SAMPLE_RATE

\* one buffer length of playback, in ms of wall-clock time
BufferMs == BUFFER_SECONDS * MS_PER_SECOND

\* const visibleSec = speed === 25 ? 6 : 3;
visibleSec(spd) == IF spd = 25 THEN 6 ELSE 3

\* const visSamples = Math.floor(visibleSec * SAMPLE_RATE);
visSamples(spd) == visibleSec(spd) * SAMPLE_RATE

\* if (!lastTs.current) lastTs.current = ts;  const dt = (ts - lastTs.current) / 1000;
\* (in ms: the division by 1000 is folded into the unit of scroll)
frameDtMs_NoFirstFrameInit(last, ts) == ts - last
frameDtMs(last, ts) == ts - (IF last = 0 THEN ts ELSE last)

\* scroll.current = (scroll.current + dt * SAMPLE_RATE) % buffer.length;
\* pos and the result are in units of 1/MS_PER_SECOND sample
advanceScroll(pos, dtMs) ==
    (pos + dtMs * SAMPLE_RATE) % (bufferLength * MS_PER_SECOND)

\* const startIdx = Math.floor(scroll.current) % buffer.length;
startIdxOf(pos) == (pos \div MS_PER_SECOND) % bufferLength

\* const frac = px / w; const sampleOffset = Math.floor(frac * visSamples);
sampleOffset_Inclusive(px, w, vis) == (px * vis) \div (w - 1)
sampleOffset(px, w, vis) == (px * vis) \div w

\* const idx = (startIdx + sampleOffset) % buffer.length;  ... buffer[idx]
columnIdx_NoWrap(startIdx, px, w, vis) == startIdx + sampleOffset(px, w, vis)
columnIdx(startIdx, px, w, vis) ==
    (startIdx + sampleOffset(px, w, vis)) % bufferLength

\* for (let px = 0; px < w; px++) {...}: the index read for each column
drawColumns(startIdx, w, vis) ==
    [i \in 1..w |-> columnIdx(startIdx, i - 1, w, vis)]

\* const visEnd = (startIdx + visSamples) % buffer.length;
visEndOf(startIdx, vis) == (startIdx + vis) % bufferLength

\* if (visStart < visEnd) {rp >= visStart && rp <= visEnd}
\* else {rp >= visStart || rp <= visEnd}: the marks drawMarkerAt is called for
markerShown(rp, visStart, visEnd) ==
    IF visStart < visEnd
    THEN rp >= visStart /\ rp <= visEnd
    ELSE rp >= visStart \/ rp <= visEnd

\* let delta = idx - visStart;  if (delta < 0) delta += buffer.length;
markerDelta(idx, visStart) ==
    IF idx - visStart < 0 THEN idx - visStart + bufferLength ELSE idx - visStart

\* const x = (delta / visSamples) * w, a rational; the line is drawn at x + 0.5
drawMarkerAt_Extrapolated(idx, visStart, vis, w) ==
    [rp |-> idx,
     x |-> <<(markerDelta(idx, visStart)
                + now \div MS_PER_SECOND) * w, vis>>]
drawMarkerAt(idx, visStart, vis, w) ==
    [rp |-> idx, x |-> <<markerDelta(idx, visStart) * w, vis>>]

\* if (syncMode && SCENARIOS[scenario].syncable) {... for (const rp of rPeaks) ...}
markersEnabled_IgnoreSyncMode(sync, scen) == SCENARIOS[scen].syncable
markersEnabled(sync, scen) == sync /\ SCENARIOS[scen].syncable

\* lines 558-577: the markers of a frame, in the order of rPeaks
drawMarkers(sync, scen, peaks, startIdx, vis, w) ==
    IF markersEnabled(sync, scen)
    THEN LET shown == SelectSeq(peaks,
                        LAMBDA rp : markerShown(rp, startIdx, visEndOf(startIdx, vis)))
         IN [i \in 1..Len(shown) |-> drawMarkerAt(shown[i], startIdx, vis, w)]
    ELSE <<>>

\* const w = Math.max(420, Math.floor(entry.contentRect.width)); setCanvasWidth(w);
resizedWidth(containerWidth) == Max(420, containerWidth)

\* Inputs of the environment
ElapsedMs == {1, 17, BufferMs - 1, 2 * BufferMs - 1}
ContainerWidths == {360, 900}
Speeds == {25, 50}

\* The environment: d ms pass with no frame delivered in between
PassTime ==
    /\ steps < MaxSteps
    /\ \E d \in ElapsedMs : now' = now + d
    /\ steps' = steps + 1
    /\ UNCHANGED <<powerOn, speed, canvasWidth, lastTs, scroll, cols, firstTs,
                   lastDtMs, shockVars, genVars, sessionVars, frameVars>>

\* requestAnimationFrame(draw): one frame, ts = now.  The effect of line 472
\* runs the loop only while powerOn; a frame's timestamp is positive (the
\* time origin precedes the mount of the component).
Draw ==
    /\ powerOn
    /\ now > 0
    /\ LET ts == now
           dtMs == frameDtMs(lastTs, ts)
           pos == advanceScroll(scroll, dtMs)
       IN /\ lastTs' = ts
          /\ scroll' = pos
          /\ cols' = drawColumns(startIdxOf(pos), canvasWidth, visSamples(speed))
          /\ markers' = drawMarkers(syncModeOn, scenario, rPeaks(buffer),
                                    startIdxOf(pos), visSamples(speed), canvasWidth)
          /\ firstTs' = IF firstTs = 0 THEN ts ELSE firstTs
          /\ lastDtMs' = dtMs
          /\ frame' = [ts |-> ts, pos |-> pos, startIdx |-> startIdxOf(pos),
                       visSamples |-> visSamples(speed), w |-> canvasWidth,
                       syncMode |-> syncModeOn, scenario |-> scenario,
                       buffer |-> buffer.id]
    /\ UNCHANGED <<now, powerOn, speed, canvasWidth, steps, shockVars, genVars,
                   sessionVars>>

\* setPowerOn((v) => !v): the P key and the power button
TogglePower ==
    /\ powerOn' = ~powerOn
    /\ UNCHANGED <<now, speed, canvasWidth, lastTs, scroll, cols, firstTs,
                   lastDtMs, steps, shockVars, genVars, sessionVars, frameVars>>

\* onClick={() => setSpeed(s as 25 | 50)}
SetSpeed ==
    /\ \E s \in Speeds : speed' = s
    /\ UNCHANGED <<now, powerOn, canvasWidth, lastTs, scroll, cols, firstTs,
                   lastDtMs, steps, shockVars, genVars, sessionVars, frameVars>>

\* the ResizeObserver callback of lines 690-697
Resize ==
    /\ \E cw \in ContainerWidths : canvasWidth' = resizedWidth(cw)
    /\ UNCHANGED <<now, powerOn, speed, lastTs, scroll, cols, firstTs,
                   lastDtMs, steps, shockVars, genVars, sessionVars, frameVars>>

\* handleShock is not running in this specification
ShockIdle ==
    /\ shockPc = "idle"
    /\ shockArgs = [rhythm |-> RHY.VF, energyJ |-> 200, syncMode |-> FALSE]
    /\ shockDraw = NoDraw
    /\ shockP = NoP
    /\ shockRet = shockLocals(RHY.VF)

ClockNext == PassTime \/ Draw \/ TogglePower \/ SetSpeed \/ Resize

ClockSpecInit == ClockInit /\ ShockIdle /\ GenIdle /\ MountInit

SpecClock == ClockSpecInit /\ [][ClockNext]_vars

-----------------------------------------------------------------------------
(* Properties of the playback clock, checked under SpecClock                *)

\* C9: after any sequence of frames, also after one whose advance exceeds a
\* whole buffer, the position is in [0, buffer.length) and every buffer
\* index read for a column of the window is in [0, buffer.length).
C9_PositionAndReadsInBounds ==
    /\ 0 <= scroll
    /\ scroll < bufferLength * MS_PER_SECOND
    /\ \A i \in DOMAIN cols : 0 <= cols[i] /\ cols[i] < bufferLength

\* a frame that advanced by more than a buffer length and whose window
\* crosses the end of the buffer
C9_Witness ==
    /\ lastDtMs > BufferMs
    /\ Len(cols) = canvasWidth
    /\ cols[1] > cols[Len(cols)]

\* C10: once a frame has been drawn, the position is (wall-clock time from
\* the first frame to the last one, times the sample rate) modulo the buffer
\* length, however that time was split into frames.
C10_PositionIsElapsedTimesRate ==
    firstTs > 0 =>
        scroll = ((lastTs - firstTs) * SAMPLE_RATE) % (bufferLength * MS_PER_SECOND)

\* more than a buffer length of time since the first frame, split into at
\* least two later frames
C10_Witness ==
    /\ firstTs > 0
    /\ lastTs - firstTs > BufferMs
    /\ lastDtMs > 0
    /\ lastDtMs < lastTs - firstTs
    /\ scroll > 0

\* the sample offset of the column drawn at cols[i], recovered from the index
\* read: the distance from startIdx going forward round the buffer
columnOffset(i) ==
    (cols[i] - startIdxOf(scroll) + bufferLength) % bufferLength

\* C21: after a frame with N columns, column px shows the sample at index
\* (floor(position) + floor(px/N x visibleSeconds x sampleRate)) mod
\* buffer.length; column 0 shows the sample at the position, the offset does
\* not decrease with px and every offset is below visibleSeconds x
\* sampleRate: 3000 samples at speed 25, 1500 at speed 50.
C21_ColumnsMapLinearly ==
    [][Draw =>
         LET N == canvasWidth'
             span == IF speed' = 25 THEN 3000 ELSE 1500
         IN /\ Len(cols') = N
            /\ \A px \in 0..(N - 1) :
                 /\ cols'[px + 1] =
                      (scroll' \div MS_PER_SECOND
                         + (px * visibleSec(speed') * SAMPLE_RATE) \div N)
                        % bufferLength
                 /\ columnOffset(px + 1)' < span
                 /\ px > 0 => columnOffset(px)' <= columnOffset(px + 1)'
            /\ cols'[1] = (scroll' \div MS_PER_SECOND) % bufferLength
            /\ columnOffset(1)' = 0]_vars

\* a frame drawn at the fast sweep on a canvas narrower than the default, its
\* window crossing the end of the buffer
C21_Witness ==
    /\ frame.ts > 0
    /\ frame.visSamples = 1500
    /\ frame.w = 420
    /\ Len(cols) = 420
    /\ cols[1] > cols[Len(cols)]

-----------------------------------------------------------------------------
(* One call of a generator, beat by beat                                    *)

\* the buffer length of the call in progress
genSamples == samplesOf(genCall.seconds)

\* the loop test and the loop body of the call in progress
genContinues == continues(genCall, genT, genCount)
genBody(j, pr, d) == beat(genCall, genT, genCount, j, pr, d)

\* the loop test holds and the body runs once
GenBeat ==
    /\ genPc = "loop"
    /\ genContinues
    /\ \E j \in JitterDraws(genCall), pr \in PrDraws(genCall),
          d \in RRDraws(genCall) :
         /\ genLast' = genBody(j, pr, d).peak
         /\ genT' = genBody(j, pr, d).t
    /\ genCount' = genCount + 1
    /\ UNCHANGED <<genPc, genCall, genRhythm, shockVars, clockVars, sessionVars,
                   frameVars>>

\* the loop test fails: return {buffer: arr, rPeaks}
GenReturn ==
    /\ genPc = "loop"
    /\ ~genContinues
    /\ genPc' = "done"
    /\ UNCHANGED <<genCall, genRhythm, genT, genCount, genLast, shockVars,
                   clockVars, sessionVars, frameVars>>

GenNext == GenBeat \/ GenReturn

\* a call in its first loop test
GenStart(rhythm, call) ==
    /\ genPc = "loop"
    /\ genRhythm = rhythm
    /\ genCall = call
    /\ genT = 0
    /\ genCount = 0
    /\ genLast = 0

-----------------------------------------------------------------------------
(* Specification SpecGen: the generator of each catalog entry, called once  *)

GenSpecInit ==
    /\ \E r \in RhythmId : \E call \in SCENARIOS[r].generator : GenStart(r, call)
    /\ ClockInit
    /\ ShockIdle
    /\ MountInit

SpecGen == GenSpecInit /\ [][GenNext]_vars

-----------------------------------------------------------------------------
(* Properties of the catalog's generators, checked under SpecGen            *)

\* a catalog generator has pushed at least one mark
MarkPushed == genRhythm \in RhythmId /\ genCount > 0

\* C12: for every rhythm class and every random outcome of its generator,
\* every depolarization mark is a valid buffer index: at least 0 and below
\* the buffer length; this includes the mark of the last beat.
C12_MarksAreBufferIndices ==
    MarkPushed => (0 <= genLast /\ genLast < genSamples)

\* C13: for every rhythm class the marks of a buffer are strictly increasing:
\* each mark pushed is above the one pushed before it.
C13_MarksStrictlyIncreasing ==
    [][(MarkPushed /\ genCount' = genCount + 1) => genLast' > genLast]_vars

\* a jittered generator returned after more than a hundred beats
C13_Witness ==
    /\ genPc = "done"
    /\ genRhythm \in {RHY.SINUS, RHY.AFIB_RVR}
    /\ genCount > 100
    /\ genLast > 0

\* C14: the generators of VF and ASYSTOLE return no marks and those of the
\* other six rhythms return at least one; the catalog's syncable flag is
\* false exactly for the rhythms whose buffers have no marks.
C14_MarksIffSyncable ==
    (genPc = "done" /\ genRhythm \in RhythmId) =>
        /\ (genCount = 0) <=> (genRhythm \in {RHY.VF, RHY.ASYSTOLE})
        /\ SCENARIOS[genRhythm].syncable <=> (genCount > 0)

\* the VF generator returned
C14_Witness ==
    /\ genPc = "done"
    /\ genRhythm = RHY.VF
    /\ genCount = 0
    /\ ~SCENARIOS[genRhythm].syncable

\* C15: every generated buffer has sampleRate x durationSeconds samples,
\* 500 x BUFFER_SECONDS, the same for the eight rhythms, and more than the
\* largest visible window (6 s x 500).
C15_BufferLength ==
    genRhythm \in RhythmId =>
        /\ genSamples = SAMPLE_RATE * BUFFER_SECONDS
        /\ genSamples = bufferLength
        /\ \A spd \in Speeds : genSamples > visSamples(spd)
        /\ genSamples > 6 * SAMPLE_RATE

\* a buffer of a jittered rhythm was returned
C15_Witness ==
    /\ genPc = "done"
    /\ genRhythm = RHY.AFIB_RVR
    /\ genSamples = bufferLength
    /\ genCount > 1

-----------------------------------------------------------------------------
(* Specification SpecGenAny: each generator called with any heart rate, and *)
(* running to its end (the body of a function is sequential code: a loop    *)
(* whose test holds runs its body, one whose test fails returns)            *)

\* heart rates outside the catalog: zero, one beat a minute, a slow rhythm
\* and one above every clamp
AnyHr == {0, 1, 50, HugeHr}

GenAnyCalls ==
    {generateRegularECG(BUFFER_SECONDS, h, 120, 200) : h \in AnyHr}
      \cup {generateAfibRvr(BUFFER_SECONDS, h) : h \in AnyHr}
      \cup {generateVT(BUFFER_SECONDS, h) : h \in AnyHr}
      \cup {generateVF(BUFFER_SECONDS), generateAsystole(BUFFER_SECONDS)}

GenAnyInit ==
    /\ \E call \in GenAnyCalls : GenStart(NoRhythm, call)
    /\ ClockInit
    /\ ShockIdle
    /\ MountInit

SpecGenAny == GenAnyInit /\ [][GenNext]_vars /\ WF_vars(GenNext)

\* the least cycle each beat loop is written to keep, in ticks: 60/190 s,
\* 0.28 s, 20 samples
minCycle ==
    CASE genCall.fn = "generateRegularECG" -> (60 * TicksPerSecond) \div 190
      [] genCall.fn = "generateAfibRvr" -> (28 * TicksPerSecond) \div 100
      [] genCall.fn = "generateVT" -> 20 * TicksPerSample
      [] OTHER -> 0

\* one iteration of a beat loop ran
BeatRan == genPc = "loop" /\ genCount' = genCount + 1

\* the loop variable moved forward by at least the least cycle
Advanced == genT # NaN /\ genT' # NaN /\ genT' - genT >= minCycle

\* the call is generateAfibRvr(seconds, 0)
AfibAtZero == genCall.fn = "generateAfibRvr" /\ genCall.hr = 0

\* C19: for every heart rate, 0 and very large ones included, each iteration
\* of a beat loop advances time by at least the fixed positive least cycle
\* of its generator (60/190 s, 0.28 s, 20 samples), so that the generator
\* terminates.
C19_EveryBeatAdvances == [][BeatRan => Advanced]_vars

\* What the code does keep: every generator returns, for every heart rate;
\* each iteration of a beat loop advances time by at least the least cycle
\* of its generator, except that of generateAfibRvr with a heart rate of 0,
\* whose cycle is NaN and whose loop ends after that one beat; with a heart
\* rate of 0 the loop of generateVT runs no iteration.
GeneratorsReturn ==
    /\ <>(genPc = "done")
    /\ [][BeatRan => (Advanced \/ (AfibAtZero /\ genCount = 0 /\ genT' = NaN))]_vars
    /\ [](AfibAtZero => genCount <= 1)
    /\ []((genCall.fn = "generateVT" /\ genCall.hr = 0) => genCount = 0)
    /\ [](genPc = "loop" => genT = NaN \/ genCount * minCycle <= genT)

-----------------------------------------------------------------------------
(* Specification SpecMonitor: a session of the mounted component in         *)
(* practice mode: rhythm loads, the sync switch, and frames                 *)

\* Inputs of the environment: the time between two frames, a usual gap and
\* what is left of one pass through the buffer
FrameGaps == {17, BufferMs - 17}

\* the environment: a gap passes with no frame delivered in between
Wait ==
    /\ steps < MaxSteps
    /\ \E d \in FrameGaps : now' = now + d
    /\ steps' = steps + 1
    /\ UNCHANGED <<powerOn, speed, canvasWidth, lastTs, scroll, cols, firstTs,
                   lastDtMs, shockVars, genVars, sessionVars, frameVars>>

\* history: a request made with the controls (a rhythm load, CHARGE, SHOCK,
\* pads, energy, mode) is handled
Request ==
    /\ events < MaxEvents
    /\ events' = events + 1

\* onChange={(e) => setSyncMode(e.target.checked)}: the checkbox is clicked
ToggleSync ==
    /\ syncModeOn' = ~syncModeOn
    /\ UNCHANGED <<scenario, mode, status, diagChoice, charged, charging, buffer,
                   loads, deviceVars, clockVars, shockVars, genVars, frameVars>>

\* the select of lines 778-794, rendered in practice mode; a change event
\* carries a value other than the one selected.  The render that follows
\* re-evaluates the two useMemo of lines 460-461.
SelectRhythm ==
    /\ mode = "practice"
    /\ loads < MaxLoads
    /\ Request
    /\ \E v \in RhythmId \ {scenario} :
         /\ scenario' = v
         /\ status' = Status("Loaded", v)
         /\ buffer' \in rendered(buffer, v)
    /\ charged' = FALSE
    /\ charging' = FALSE
    /\ loads' = loads + 1
    /\ UNCHANGED <<syncModeOn, mode, diagChoice, padsOn, energy, score, shockFlashTs,
                   timers, charges, completions, shocks, armed, delivered, clockVars,
                   shockVars, genVars, frameVars>>

\* const pool: RhythmId[] = [...]: the seven rhythms of randomCase
pool == {RHY.VF, RHY.PVT, RHY.SVT, RHY.AFIB_RVR, RHY.VT_PULSE, RHY.ASYSTOLE,
         RHY.PEA_NARROW}

\* randomCase, lines 653-673: the N key and the two buttons
RandomCase ==
    /\ loads < MaxLoads
    /\ Request
    /\ \E pick \in pool :
         /\ scenario' = pick
         /\ IF mode = "quiz"
            THEN /\ status' = Status("New case loaded", NoRhythm)
                 /\ diagChoice' = ""
            ELSE /\ status' = Status("Case loaded", pick)
                 /\ UNCHANGED diagChoice
         /\ buffer' \in rendered(buffer, pick)
    /\ charged' = FALSE
    /\ charging' = FALSE
    /\ loads' = loads + 1
    /\ UNCHANGED <<syncModeOn, mode, padsOn, energy, score, shockFlashTs, timers,
                   charges, completions, shocks, armed, delivered, clockVars, shockVars,
                   genVars, frameVars>>

\* rafId = requestAnimationFrame(draw), lines 586 and 589: draw runs once in
\* an animation frame, and the frame after it has a later timestamp
Frame ==
    /\ now > lastTs
    /\ Draw

MonitorNext == Wait \/ Frame \/ ToggleSync \/ SelectRhythm \/ RandomCase

MonitorSpecInit == ClockInit /\ MountInit /\ ShockIdle /\ GenIdle

SpecMonitor == MonitorSpecInit /\ [][MonitorNext]_vars

-----------------------------------------------------------------------------
(* Properties of a session, checked under SpecMonitor                       *)

\* C11: the playback position is reset to 0 whenever the active buffer
\* changes (a rhythm load or a therapy transition that produces a new
\* buffer).
C11_ResetOnBufferChange ==
    [][buffer'.id # buffer.id => scroll' = 0]_vars

\* a frame has been drawn and the buffer it was drawn from is still active
FrameCurrent == frame.ts > 0 /\ frame.buffer = buffer.id

\* the markers of the last frame were drawn: sync was on and the rhythm of
\* the frame is syncable
FrameMarked == frame.syncMode /\ SCENARIOS[frame.scenario].syncable

\* the circular offset of buffer index idx from the start of the last window
OffsetInFrame(idx) == (idx - frame.startIdx) % bufferLength

\* idx is one of the frame.visSamples buffer indices of the last window
InFrame(idx) ==
    /\ 0 <= idx
    /\ idx < bufferLength
    /\ OffsetInFrame(idx) < frame.visSamples

\* some marker of the last frame is for the mark rp
HasMarker(rp) == \E m \in DOMAIN markers : markers[m].rp = rp

\* C16: when markers are produced they are exactly the marks that fall in the
\* visible window of visibleSeconds x sampleRate samples starting at the
\* position, also when the window crosses the end of the buffer; a marker's
\* column is (circular offset of the mark from the window start / window
\* length) x columns, lies in [0, columns], and is the column of the window
\* that displays the marked sample.  (The far end of the window, offset =
\* window length and column = columns, is counted as inside.)
C16_MarkersAreWindowMarks ==
    (FrameCurrent /\ FrameMarked) =>
        LET peaks == rPeaks(buffer)
        IN /\ \A i \in DOMAIN peaks : InFrame(peaks[i]) => HasMarker(peaks[i])
           /\ \A m \in DOMAIN markers :
                LET rp == markers[m].rp
                    o == OffsetInFrame(rp)
                    x == markers[m].x
                IN /\ \E i \in DOMAIN peaks : peaks[i] = rp
                   /\ o <= frame.visSamples
                   /\ x = <<o * frame.w, frame.visSamples>>
                   /\ 0 <= x[1] /\ x[1] <= frame.w * x[2]
                   /\ (frame.startIdx + o) % bufferLength = rp

\* C17: markers are produced for a frame if and only if syncMode is on and
\* the catalog entry of the active rhythm is syncable; with sync off, or for
\* VF and ASYSTOLE, the frame has no marker.
C17_MarkersIffSyncAndSyncable ==
    frame.ts > 0 =>
        /\ markers # <<>> => FrameMarked
        /\ (~frame.syncMode \/ frame.scenario \in {RHY.VF, RHY.ASYSTOLE})
             => markers = <<>>
        /\ (FrameMarked /\ FrameCurrent) =>
             LET peaks == rPeaks(buffer)
             IN \A i \in DOMAIN peaks : InFrame(peaks[i]) => HasMarker(peaks[i])

\* a frame of SVT with sync on drew markers
C17_Witness ==
    /\ frame.ts > 0
    /\ frame.syncMode
    /\ frame.scenario = RHY.SVT
    /\ markers # <<>>

\* C18: every load of a rhythm (selection or random case), also a load of
\* the rhythm that is already active, calls the generator again: the active
\* buffer after the load is a newly generated one.
C18_LoadRegenerates ==
    [][loads' = loads + 1 => buffer'.id = buffer.id + 1]_vars

\* the frame being drawn has the buffer, position, window length and column
\* count of the frame before it
SameWindow ==
    /\ frame.ts > 0
    /\ frame'.buffer = frame.buffer
    /\ frame'.pos = frame.pos
    /\ frame'.visSamples = frame.visSamples
    /\ frame'.w = frame.w

-----------------------------------------------------------------------------
(* Specification SpecDevice: the defibrillator controls of the mounted      *)
(* component: CHARGE and its timers, SHOCK, power, pads, energy, sync,      *)
(* mode and rhythm loads                                                    *)

\* setTimeout(() => {...}, 1800) and setTimeout(() => clearTimeout(t), 2000)
CHARGE_MS == 1800
CLEANUP_MS == 2000

\* Inputs of the user: the energies set with the slider and the buttons
DeviceEnergies == {200, 360}

\* the two timers onCharge sets at time t, lines 601-607: t's callback reads
\* the energy of the render that ran onCharge; id, l: history (the number of
\* the charge and the loads before it)
chargeTimers_EarlyCleanup(id, e, l, t) ==
    {[id |-> id, kind |-> "charged", due |-> t + CHARGE_MS, energy |-> e, loads |-> l],
     [id |-> id, kind |-> "clear", due |-> t + CLEANUP_MS \div 10, energy |-> e, loads |-> l]}
chargeTimers(id, e, l, t) ==
    {[id |-> id, kind |-> "charged", due |-> t + CHARGE_MS, energy |-> e, loads |-> l],
     [id |-> id, kind |-> "clear", due |-> t + CLEANUP_MS, energy |-> e, loads |-> l]}

\* lines 595-597: the three early returns of onCharge; "" when it goes on
chargeRefusal(power, pads, chg) ==
    IF ~power THEN "Power is OFF."
    ELSE IF ~pads THEN "Attach pads first."
    ELSE IF chg THEN "return"
    ELSE ""

\* lines 611-613: the three early returns of onShock; "" when it goes on
shockRefusal_NoChargedCheck(power, pads, chd) ==
    IF ~power THEN "Power is OFF."
    ELSE IF ~pads THEN "Attach pads to patient first."
    ELSE ""
shockRefusal_NoPadsCheck(power, pads, chd) ==
    IF ~power THEN "Power is OFF."
    ELSE IF ~chd THEN "Not charged."
    ELSE ""
shockRefusal(power, pads, chd) ==
    IF ~power THEN "Power is OFF."
    ELSE IF ~pads THEN "Attach pads to patient first."
    ELSE IF ~chd THEN "Not charged."
    ELSE ""

\* the arguments onShock passes to handleShock, lines 618-622
shockCall(rhythm, e, sync) ==
    [rhythm |-> rhythm, energyJ |-> e, syncMode |-> sync]

\* lines 624-628: the status after a shock
StatusShock(sync, e, ret) ==
    [kind |-> "SHOCK", syncMode |-> sync, energy |-> formatEnergy(e),
     message |-> ret.message, appropriate |-> ret.appropriate]

\* line 634: setScore in quiz mode
scored(s, appropriate) ==
    [s EXCEPT !.txTotal = @ + 1,
              !.txCorrect = @ + (IF appropriate THEN 1 ELSE 0)]

\* onCharge, lines 594-608: the C key and the CHARGE button
Charge ==
    LET refusal == chargeRefusal(powerOn, padsOn, charging)
    IN IF refusal = "return"
       THEN /\ Request
            /\ UNCHANGED <<scenario, syncModeOn, mode, status, diagChoice, charged,
                           charging, buffer, loads, padsOn, energy, score,
                           shockFlashTs, timers, charges, completions, shocks, armed,
                           delivered, clockVars, shockVars, genVars, frameVars>>
       ELSE IF refusal # ""
       THEN /\ Request
            /\ status' = Status(refusal, NoRhythm)
            /\ UNCHANGED <<scenario, syncModeOn, mode, diagChoice, charged, charging,
                           buffer, loads, padsOn, energy, score, shockFlashTs, timers,
                           charges, completions, shocks, armed, delivered, clockVars,
                           shockVars, genVars, frameVars>>
       ELSE /\ Request
            /\ charging' = TRUE
            /\ charged' = FALSE
            /\ status' = StatusEnergy("Charging to", energy)
            /\ timers' = timers \cup chargeTimers(charges + 1, energy, loads, now)
            /\ charges' = charges + 1
            /\ UNCHANGED <<scenario, syncModeOn, mode, diagChoice, buffer, loads,
                           padsOn, energy, score, shockFlashTs, completions, shocks,
                           armed, delivered, clockVars, shockVars, genVars, frameVars>>

\* the pending timers that run next: those due first; of two set for the
\* same time the one set first
nextTimers ==
    {t \in timers : \A u \in timers :
        \/ t.due < u.due
        \/ t.due = u.due /\ t.id <= u.id}

\* a timer of onCharge runs, lines 601-605 and 607
FireTimer ==
    \E t \in nextTimers :
      /\ t.due <= now
      /\ IF t.kind = "charged"
         THEN /\ charging' = FALSE
              /\ charged' = TRUE
              /\ status' = StatusEnergy("Charged", t.energy)
              /\ timers' = timers \ {t}
              /\ completions' = completions + 1
              /\ armed' = [id |-> t.id, energy |-> t.energy, loads |-> t.loads]
         ELSE /\ timers' = {u \in timers : u.id # t.id}
              /\ UNCHANGED <<charging, charged, status, completions, armed>>
      /\ UNCHANGED <<scenario, syncModeOn, mode, diagChoice, buffer, loads, padsOn,
                     energy, score, shockFlashTs, charges, shocks, delivered, events,
                     clockVars, shockVars, genVars, frameVars>>

\* the environment: time runs on to the next pending timer; a timer that is
\* due runs before more time passes
Elapse ==
    /\ timers # {}
    /\ \A t \in timers : t.due > now
    /\ \E t \in nextTimers : now' = t.due
    /\ UNCHANGED <<powerOn, speed, canvasWidth, lastTs, scroll, cols, firstTs,
                   lastDtMs, steps, shockVars, genVars, sessionVars, frameVars>>

\* onShock, lines 610-636: the space key and the SHOCK button
Shock ==
    LET refusal == shockRefusal(powerOn, padsOn, charged)
    IN IF refusal # ""
       THEN /\ Request
            /\ status' = Status(refusal, NoRhythm)
            /\ UNCHANGED <<scenario, syncModeOn, mode, diagChoice, charged, charging,
                           buffer, loads, padsOn, energy, score, shockFlashTs, timers,
                           charges, completions, shocks, armed, delivered, clockVars,
                           shockVars, genVars, frameVars>>
       ELSE \E rnd \in RandomValues :
              LET call == shockCall(scenario, energy, syncModeOn)
                  ret == handleShock(call.rhythm, call.energyJ, call.syncMode, rnd)
              IN /\ Request
                 /\ shockFlashTs' = now
                 /\ charged' = FALSE
                 /\ status' = StatusShock(syncModeOn, energy, ret)
                 /\ scenario' = ret.nextRhythm
                 /\ buffer' \in rendered(buffer, ret.nextRhythm)
                 /\ score' = IF mode = "quiz" THEN scored(score, ret.appropriate)
                             ELSE score
                 /\ shocks' = shocks + 1
                 /\ delivered' = call
                 /\ armed' = NoCharge
                 /\ UNCHANGED <<syncModeOn, mode, diagChoice, charging, loads, padsOn,
                                energy, timers, charges, completions, clockVars,
                                shockVars, genVars, frameVars>>

\* onClick={() => setPadsOn((v) => !v)}
TogglePads ==
    /\ Request
    /\ padsOn' = ~padsOn
    /\ UNCHANGED <<scenario, syncModeOn, mode, status, diagChoice, charged, charging,
                   buffer, loads, energy, score, shockFlashTs, timers, charges,
                   completions, shocks, armed, delivered, clockVars, shockVars,
                   genVars, frameVars>>

\* setEnergy(parseInt(e.target.value)) and setEnergy(j): another energy is set
SetEnergy ==
    /\ Request
    /\ \E j \in DeviceEnergies \ {energy} : energy' = j
    /\ UNCHANGED <<scenario, syncModeOn, mode, status, diagChoice, charged, charging,
                   buffer, loads, padsOn, score, shockFlashTs, timers, charges,
                   completions, shocks, armed, delivered, clockVars, shockVars,
                   genVars, frameVars>>

\* the Practice and Quiz buttons, lines 756-763
SetMode ==
    /\ Request
    /\ \E m \in {"practice", "quiz"} :
         /\ mode' = m
         /\ status' = IF m = "practice" THEN Status("Loaded", scenario)
                      ELSE Status("Quiz mode", NoRhythm)
    /\ UNCHANGED <<scenario, syncModeOn, diagChoice, charged, charging, buffer, loads,
                   padsOn, energy, score, shockFlashTs, timers, charges, completions,
                   shocks, armed, delivered, clockVars, shockVars, genVars, frameVars>>

DeviceNext ==
    \/ Charge \/ FireTimer \/ Elapse \/ Shock
    \/ TogglePower \/ TogglePads \/ SetEnergy \/ ToggleSync \/ SetMode
    \/ SelectRhythm \/ RandomCase

DeviceSpecInit == ClockInit /\ MountInit /\ ShockIdle /\ GenIdle

SpecDevice == DeviceSpecInit /\ [][DeviceNext]_vars

-----------------------------------------------------------------------------
(* Properties of the device controls, checked under SpecDevice              *)

\* onShock went past its early returns: handleShock was called
ShockDelivered == shocks' = shocks + 1

\* C23: handleShock is called, and the rhythm changed by a shock, only in a
\* state where power is on, pads are attached and the device is charged; a
\* SHOCK request in any other state changes only the status message and
\* leaves rhythm, buffer, charged, charging, energy, sync mode and score as
\* they are.
C23_ShockOnlyWhenReady ==
    [][/\ ShockDelivered => (powerOn /\ padsOn /\ charged)
       /\ (Shock /\ ~(powerOn /\ padsOn /\ charged)) =>
            /\ ~ShockDelivered
            /\ status'.kind \in {"Power is OFF.", "Attach pads to patient first.",
                                 "Not charged."}
            /\ scenario' = scenario
            /\ buffer' = buffer
            /\ charged' = charged
            /\ charging' = charging
            /\ energy' = energy
            /\ syncModeOn' = syncModeOn
            /\ score' = score
            /\ delivered' = delivered]_vars

\* SHOCK was pressed on a charged device with the pads off, and refused
C23_Witness ==
    /\ status = Status("Attach pads to patient first.", NoRhythm)
    /\ powerOn
    /\ ~padsOn
    /\ charged
    /\ shocks = 0

\* C24: each completed charge permits at most one shock: a delivered shock
\* sets charged to false, a charge timer has fired since the shock before
\* it, and the shocks delivered never outnumber the charge timers that fired
\* nor these the charges started.
C24_OneShockPerCharge ==
    [][/\ ShockDelivered => (~charged' /\ armed # NoCharge /\ armed' = NoCharge)
       /\ shocks' <= completions'
       /\ completions' <= charges']_vars

\* two charges, each followed by a shock
C24_Witness ==
    /\ shocks = 2
    /\ completions = 2
    /\ charges = 2
    /\ ~charged

\* C25: after a rhythm load the device stays uncharged until a charge started
\* after that load completes: whenever the device is charged, the charge
\* whose timer armed it was started after the last load.
C25_LoadDisarmsUntilNewCharge ==
    charged => (armed # NoCharge /\ armed.loads = loads)

\* C26: a delivered shock takes the session rhythm to itself, SINUS or VF:
\* SINUS, ASYSTOLE and PEA_NARROW stay; VF and PVT stay or become SINUS; SVT,
\* AFIB_RVR and VT_PULSE stay or become SINUS or VF; no shock enters PVT,
\* ASYSTOLE, PEA_NARROW, SVT, AFIB_RVR or VT_PULSE from another rhythm.
C26_TherapyTransitions ==
    [][ShockDelivered =>
         /\ scenario' \in {scenario, RHY.SINUS, RHY.VF}
         /\ scenario \in {RHY.SINUS, RHY.ASYSTOLE, RHY.PEA_NARROW}
              => scenario' = scenario
         /\ scenario \in {RHY.VF, RHY.PVT} => scenario' \in {scenario, RHY.SINUS}
         /\ scenario' # scenario => scenario' \in {RHY.SINUS, RHY.VF}
         /\ buffer'.rhythm = scenario']_vars

\* an unsynchronized shock of AF with RVR that degenerated to VF
C26_Witness ==
    /\ shocks = 1
    /\ delivered.rhythm = RHY.AFIB_RVR
    /\ ~delivered.syncMode
    /\ scenario = RHY.VF
    /\ buffer.rhythm = RHY.VF

\* C28: the energy passed to handleShock by a shock is the energy that was
\* selected when the charge that armed the device was started, the one the
\* status "Charged: ... Ready to shock." announced.
C28_DeliversChargedEnergy ==
    [][ShockDelivered => delivered'.energyJ = armed.energy]_vars

-----------------------------------------------------------------------------
(* Specification SpecCharge: CHARGE, its timers and what may come between   *)
(* a CHARGE and its timer: power, pads and rhythm loads. The event loop     *)
(* lets time run on and runs a timer that is due.                           *)

ChargeNext ==
    \/ Charge \/ FireTimer \/ Elapse
    \/ TogglePower \/ TogglePads \/ SelectRhythm \/ RandomCase

ChargeSpecInit == ClockInit /\ MountInit /\ ShockIdle /\ GenIdle

SpecCharge ==
    /\ ChargeSpecInit
    /\ [][ChargeNext]_vars
    /\ WF_vars(Elapse)
    /\ WF_vars(FireTimer)

\* the 1800 ms timer of charge i is pending
ChargePending(i) == \E t \in timers : t.kind = "charged" /\ t.id = i

\* the 1800 ms timer of charge i has just run
ChargeCompleted(i) == charged /\ ~charging /\ armed.id = i

\* C29: every CHARGE that is accepted leads to the state its 1800 ms timer
\* sets (charged, not charging), whatever comes in between: the cleanup
\* timer, power and pads toggles, rhythm loads; a request made while
\* charging starts no charge and touches no timer; charging and charged are
\* never both true.
C29_ChargeCompletes ==
    /\ \A i \in 1..MaxEvents : ChargePending(i) ~> ChargeCompleted(i)
    /\ [](~(charging /\ charged))
    /\ [][/\ (charging /\ events' # events)
               => (charges' = charges /\ timers' = timers)
          /\ charges' # charges
               => (powerOn /\ padsOn /\ ~charging /\ charging' /\ ~charged'
                   /\ \E t \in timers' : t.kind = "charged" /\ t.id = charges')
          /\ \A i \in 1..MaxEvents :
               (ChargePending(i) /\ ~ChargePending(i)') => ChargeCompleted(i)']_vars

\* the timer of a charge ran after the power was switched off, the pads were
\* taken off and another rhythm was loaded, and its cleanup timer ran too
C29_Witness ==
    /\ charges = 1
    /\ completions = 1
    /\ charged
    /\ ~charging
    /\ ~powerOn
    /\ ~padsOn
    /\ armed.loads < loads
    /\ timers = {}

-----------------------------------------------------------------------------
(* Specification SpecTherapy: shock after shock. onShock passes the session *)
(* rhythm to handleShock and stores the rhythm it returns, which the next   *)
(* shock passes again. Each shock is given as the rhythm asks for:          *)
(* synchronized when the catalog recommends it.                             *)

\* the rhythms a shock can convert, lines 359-417
Treatable == {RHY.VF, RHY.PVT, RHY.SVT, RHY.AFIB_RVR, RHY.VT_PULSE}

\* Inputs of the user: energies of the range the slider and handleShock
\* keep to, line 357
TherapyEnergies == {e \in Energies : e >= 0 /\ e <= 360 /\ e % 40 = 0}

\* the calls onShock makes when the therapy suits the rhythm
TherapyCalls ==
    {c \in [rhythm : Treatable, energyJ : TherapyEnergies, syncMode : BOOLEAN] :
        SCENARIOS[c.rhythm].syncRecommended => c.syncMode}

TherapyInit ==
    /\ shockPc = "call"
    /\ shockArgs \in TherapyCalls
    /\ shockDraw = NoDraw
    /\ shockP = NoP
    /\ shockRet = shockLocals(shockArgs.rhythm)

\* the next charge and shock, lines 618-630: the rhythm is the one the shock
\* before it returned; delivered keeps the call before this one
Redeliver ==
    /\ shockPc = "returned"
    /\ shockRet.nextRhythm \in Treatable
    /\ \E c \in TherapyCalls :
         /\ c.rhythm = shockRet.nextRhythm
         /\ shockArgs' = c
    /\ shockPc' = "call"
    /\ delivered' = shockArgs
    /\ UNCHANGED <<shockDraw, shockP, shockRet, scenario, syncModeOn, mode, status,
                   diagChoice, charged, charging, buffer, loads, padsOn, energy,
                   score, shockFlashTs, timers, charges, completions, shocks, armed,
                   events, clockVars, genVars, frameVars>>

\* a shock whose draw converts the rhythm
DeliverConverting == Deliver /\ shockRet'.converted

TherapyNext == Deliver \/ Redeliver

TherapySpecInit == TherapyInit /\ ClockInit /\ GenIdle /\ MountInit

SpecTherapy ==
    /\ TherapySpecInit
    /\ [][TherapyNext]_vars
    /\ WF_vars(Deliver)
    /\ WF_vars(Redeliver)
    /\ SF_vars(DeliverConverting)

\* C30: therapy that suits the rhythm, repeated at any energies in [0, 360]
\* with fair draws, ends in SINUS; at every such shock some draw converts the
\* rhythm and some draw does not.
C30_TherapyConverts ==
    /\ <>(shockPc = "returned" /\ shockRet.nextRhythm = RHY.SINUS)
    /\ [](shockPc = "call" =>
            /\ shockArgs \in TherapyCalls
            /\ \E rnd \in RandomValues :
                 handleShock(shockArgs.rhythm, shockArgs.energyJ,
                             shockArgs.syncMode, rnd).converted
            /\ \E rnd \in RandomValues :
                 ~handleShock(shockArgs.rhythm, shockArgs.energyJ,
                              shockArgs.syncMode, rnd).converted)
    /\ [][Deliver =>
            /\ shockRet'.appropriate
            /\ shockRet'.nextRhythm \in {shockArgs.rhythm, RHY.SINUS}
            /\ shockRet'.converted <=> shockRet'.nextRhythm = RHY.SINUS]_vars

\* a synchronized shock of 0 J that converted VT with a pulse, after a shock
\* of 360 J that did not
C30_Witness ==
    /\ shockPc = "returned"
    /\ shockRet.nextRhythm = RHY.SINUS
    /\ shockArgs = [rhythm |-> RHY.VT_PULSE, energyJ |-> 0, syncMode |-> TRUE]
    /\ delivered = [rhythm |-> RHY.VT_PULSE, energyJ |-> 360, syncMode |-> TRUE]

====
